---- MODULE Spec2Model ----
(***************************************************************************)
(* Model of src/app.py: the Flask application that forwards a prompt to    *)
(* the Google Gemini service.  The state is the two module-level globals   *)
(* set at import time (google_api_key, model) and, for every request slot, *)
(* the position of the handler generate_story_api, its request body, the   *)
(* outcome of its remote call and the responses it has sent.               *)
(***************************************************************************)
EXTENDS Integers, Sequences, FiniteSets, TLC

VARIABLES
    env,             \* what the environment did at import time (lines 17-43)
    google_api_key,  \* module global, line 17 / 27
    model,           \* module global, lines 36 / 39 / 43
    pc,              \* per request: position of the handler
    body,            \* per request: the HTTP request body
    outcome,         \* per request: what model.generate_content did
    calls,           \* per request: number of invocations of the remote service
    resp             \* per request: sequence of responses sent to the client

vars == <<env, google_api_key, model, pc, body, outcome, calls, resp>>

----------------------------------------------------------------------------
(* Bounds and program constants *)

\* longest text of a candidate returned by the remote service
MaxTextLen == 3

\* len(user_prompt) > 2000, line 63
MaxPromptLen == 2000

\* the request slots handled concurrently (thread-per-request)
Requests == {"r1", "r2"}

----------------------------------------------------------------------------
(* Python values *)

None == "<None>"

\* truth value of a str-or-None, as in `if not google_api_key`
Truthy(v) == v \notin {None, ""}

\* os.getenv("GOOGLE_API_KEY"): unset, set to the empty string, or set
EnvKeys == {None, "", "key"}

MODEL_NAME == "gemini-1.5-flash-latest"

\* the object genai.GenerativeModel(MODEL_NAME) returns
GenerativeModel == [name |-> MODEL_NAME]

NoModel == [name |-> None]

----------------------------------------------------------------------------
(* Module start-up, lines 17-43 *)

\* StartupKey without line 27: the key survives a failed genai.configure
StartupKey_KeepsKey(e) == e.key

\* lines 17-27: the key is kept unless genai.configure raises
StartupKey(e) ==
    IF ~Truthy(e.key) THEN e.key
    ELSE IF e.configure_ok THEN e.key
    ELSE None

\* lines 34-43: the model is built only with a key, and is None when
\* the constructor raises
StartupModel(key, e) ==
    IF Truthy(key)
    THEN IF e.init_ok THEN GenerativeModel ELSE NoModel
    ELSE NoModel

Environments == [key : EnvKeys, configure_ok : BOOLEAN, init_ok : BOOLEAN]

----------------------------------------------------------------------------
(* Strings: a text is a sequence of characters / fragments *)

Whitespace == {" ", "\n"}

Chars == Whitespace \cup {"a"}

RECURSIVE LStrip(_)
LStrip(s) ==
    IF s = <<>> THEN s
    ELSE IF Head(s) \in Whitespace THEN LStrip(Tail(s))
    ELSE s

RECURSIVE RStrip(_)
RStrip(s) ==
    IF s = <<>> THEN s
    ELSE IF s[Len(s)] \in Whitespace THEN RStrip(SubSeq(s, 1, Len(s) - 1))
    ELSE s

\* Strip as str.lstrip()
Strip_LeftOnly(s) == LStrip(s)

\* str.strip(), line 109
Strip(s) == RStrip(LStrip(s))

\* all texts of length at most n
RECURSIVE TextsUpTo(_)
TextsUpTo(n) ==
    IF n = 0 THEN {<<>>}
    ELSE LET shorter == TextsUpTo(n - 1)
         IN  shorter \cup {Append(t, c) : t \in shorter, c \in Chars}

Texts == TextsUpTo(MaxTextLen)

\* `marker in text`: the marker occurs in the text
Contains(marker, text) == \E i \in 1..Len(text) : text[i] = marker

----------------------------------------------------------------------------
(* HTTP request bodies *)

\* lengths of the prompts sent: around both ends of the accepted range
PromptLens == {0, 1, MaxPromptLen, MaxPromptLen + 1}

\* the value data.get('prompt') returns for a JSON object
PromptValues ==
    {[type |-> "absent"], [type |-> "null"]}
    \cup [type : {"string"}, len : PromptLens]
    \cup [type : {"array"}, len : {0, 1, MaxPromptLen + 1}]
    \cup [type : {"number"}, value : {0, 7}]

\* what the client posts: bytes that are no JSON, a JSON value that is no
\* object, or a JSON object
Bodies ==
    {[kind |-> "unparsable"]}
    \cup [kind : {"nonobject"}, json : {"NoneType", "list", "str", "int"}]
    \cup [kind : {"object"}, prompt : PromptValues]

NoBody == [kind |-> "none"]

\* `not user_prompt`, line 60
Falsy(p) ==
    \/ p.type \in {"absent", "null"}
    \/ p.type \in {"string", "array"} /\ p.len = 0
    \/ p.type = "number" /\ p.value = 0

\* len() is defined for strings and arrays only
HasLen(p) == p.type \in {"string", "array"}

\* TooLong with >= for >
TooLong_OffByOne(p) == p.len >= MaxPromptLen

\* `len(user_prompt) > 2000`, line 63
TooLong(p) == p.len > MaxPromptLen

----------------------------------------------------------------------------
(* Exceptions and responses *)

\* jsonify(json), status
Response(status, json) == [status |-> status, json |-> json]

Error(status, message) == Response(status, [error |-> message])

\* str(e) of the exceptions the handler itself can raise
AttributeErrorText(t) == <<"'", t, "' object has no attribute 'get'">>

TypeErrorText(t) == <<"object of type '", t, "' has no len()">>

BadRequestText == <<"400 Bad Request: Failed to decode JSON object">>

Raised(text) == [raised |-> TRUE, text |-> text]

Returned(value) == [raised |-> FALSE, value |-> value]

\* lines 57-58: request.get_json() then data.get('prompt')
GetPrompt(b) ==
    IF b.kind = "unparsable" THEN Raised(BadRequestText)
    ELSE IF b.kind = "nonobject" THEN Raised(AttributeErrorText(b.json))
    ELSE Returned(b.prompt)

\* InternalError without the status of line 144
InternalError_NoStatus(text) ==
    Response(200, [error |-> <<"An internal server error occurred: ">> \o text])

\* lines 142-144: the handler of the outer try
InternalError(text) ==
    Error(500, <<"An internal server error occurred: ">> \o text)

Pass == [status |-> 0, json |-> [pass |-> TRUE]]

\* lines 51-54: a response, or Pass when both globals are set
CheckGlobals(key, mdl) ==
    IF ~Truthy(key)
    THEN Error(500, <<"Google API key not configured on the server.">>)
    ELSE IF mdl = NoModel
    THEN Error(500, <<"Google Gemini model '", MODEL_NAME,
                      "' not initialized. Check server logs.">>)
    ELSE Pass

\* lines 56-64 and 142-144: a response, or Pass when the prompt is accepted
Validate(b) ==
    LET got == GetPrompt(b)
    IN  IF got.raised THEN InternalError(got.text)
        ELSE IF Falsy(got.value) THEN Error(400, <<"Prompt is missing">>)
        ELSE IF ~HasLen(got.value)
        THEN InternalError(TypeErrorText("int"))
        ELSE IF TooLong(got.value)
        THEN Error(400, <<"Prompt is too long (max 2000 characters for this demo)">>)
        ELSE Pass

----------------------------------------------------------------------------
(* The remote service: what model.generate_content(...) can do *)

\* fragments of the messages of the service's failures; the first three are
\* the markers the handler looks for (lines 127, 130, 133)
MsgFragments == {"API key not valid", "Quota", "Invalid", "Deadline exceeded"}

\* messages of one or two fragments
Messages ==
    {<<a>> : a \in MsgFragments} \cup {<<a, b>> : a, b \in MsgFragments}

\* classes of the failures; the first three are the markers looked for in
\* str(type(e_gemini))
ExcTypes == {"PermissionDenied", "ResourceExhausted", "BadRequest",
             "ServiceUnavailable"}

\* an exception of the service: its class, its message, and whether it has
\* a `message` attribute (a google.api_core error) or not
Exceptions == [type : ExcTypes, text : Messages, has_message : BOOLEAN]

\* str(e_gemini): a google.api_core error prints its code before its message
Str(e) == IF e.has_message THEN <<"503 ">> \o e.text ELSE e.text

\* str(type(e_gemini))
TypeStr(e) == <<"<class 'google.api_core.exceptions.", e.type, "'>">>

\* response.prompt_feedback.block_reason: no feedback, the zero value of the
\* enumeration, or a reason
BlockReasons == {None, "BLOCK_REASON_UNSPECIFIED", "SAFETY", "OTHER"}

\* `response.prompt_feedback and response.prompt_feedback.block_reason`
HasBlockReason(reason) == reason \notin {None, "BLOCK_REASON_UNSPECIFIED"}

Outcomes ==
    [kind : {"raises"}, exc : Exceptions]
    \cup [kind : {"blocked"}, block_reason : BlockReasons]
    \cup [kind : {"candidate"}, text : Texts]

NoOutcome == [kind |-> "none"]

\* lines 121-123
ErrorMessage(e) == IF e.has_message THEN e.text ELSE Str(e)

\* Classify with the quota test before the authentication test
Classify_QuotaFirst(e) ==
    LET error_message == ErrorMessage(e)
    IN  IF \/ Contains("Quota", error_message)
           \/ Contains("ResourceExhausted", TypeStr(e))
        THEN [status |-> 429,
              message |-> <<"Google AI service quota exceeded. Please check your usage or try again later.">>]
        ELSE IF \/ Contains("API key not valid", error_message)
                \/ Contains("PermissionDenied", TypeStr(e))
        THEN [status |-> 401,
              message |-> <<"Authentication with Google AI service failed. Check your API key.">>]
        ELSE IF \/ Contains("Invalid", error_message)
                \/ Contains("BadRequest", TypeStr(e))
        THEN [status |-> 400,
              message |-> <<"Invalid request to Google AI service: ">> \o error_message]
        ELSE [status |-> 500, message |-> error_message]

\* lines 125-135: the status and the message of a failure of the service
Classify(e) ==
    LET error_message == ErrorMessage(e)
    IN  IF \/ Contains("API key not valid", error_message)
           \/ Contains("PermissionDenied", TypeStr(e))
        THEN [status |-> 401,
              message |-> <<"Authentication with Google AI service failed. Check your API key.">>]
        ELSE IF \/ Contains("Quota", error_message)
                \/ Contains("ResourceExhausted", TypeStr(e))
        THEN [status |-> 429,
              message |-> <<"Google AI service quota exceeded. Please check your usage or try again later.">>]
        ELSE IF \/ Contains("Invalid", error_message)
                \/ Contains("BadRequest", TypeStr(e))
        THEN [status |-> 400,
              message |-> <<"Invalid request to Google AI service: ">> \o error_message]
        ELSE [status |-> 500, message |-> error_message]

\* lines 118-137
ServiceError(e) ==
    LET c == Classify(e)
    IN  Error(c.status,
              <<"An error occurred with the Google AI service: ">> \o c.message)

\* BlockReasonMsg without lines 103-104
BlockReasonMsg_AlwaysGeneric(reason) ==
    <<"Content generation blocked. The prompt might have violated safety guidelines or resulted in no valid output.">>

\* lines 102-104
BlockReasonMsg(reason) ==
    IF HasBlockReason(reason)
    THEN <<"Content generation blocked due to: ", reason>>
    ELSE <<"Content generation blocked. The prompt might have violated safety guidelines or resulted in no valid output.">>

\* lines 100-106
Blocked(reason) == Error(400, BlockReasonMsg(reason))

\* line 112
Fallback ==
    <<"The AI couldn't come up with a story continuation this time. Try a different prompt!">>

\* lines 109-112
StoryContinuation(text) ==
    LET story_continuation == Strip(text)
    IN  IF story_continuation = <<>> THEN Fallback ELSE story_continuation

\* line 140
Story(text) == Response(200, [story |-> StoryContinuation(text)])

\* lines 93-140: the response to what the remote call did
Interpret(o) ==
    IF o.kind = "raises" THEN ServiceError(o.exc)
    ELSE IF o.kind = "blocked" THEN Blocked(o.block_reason)
    ELSE Story(o.text)

\* the whole handler run by itself, lines 50-144
HandleAlone(key, mdl, b, o) ==
    IF CheckGlobals(key, mdl) # Pass THEN CheckGlobals(key, mdl)
    ELSE IF Validate(b) # Pass THEN Validate(b)
    ELSE Interpret(o)

----------------------------------------------------------------------------
(* State machine *)

TypeOK ==
    /\ env \in Environments
    /\ google_api_key \in EnvKeys
    /\ model \in {GenerativeModel, NoModel}
    /\ pc \in [Requests -> {"idle", "received", "parsing", "validated",
                            "waiting", "done"}]
    /\ body \in [Requests -> Bodies \cup {NoBody}]
    /\ outcome \in [Requests -> Outcomes \cup {NoOutcome}]
    /\ calls \in [Requests -> 0..1]
    /\ \A r \in Requests : Len(resp[r]) <= 1

\* the state once the module is imported (lines 17-43) and no request has
\* arrived
Init ==
    /\ env \in Environments
    /\ google_api_key = StartupKey(env)
    /\ model = StartupModel(google_api_key, env)
    /\ pc = [r \in Requests |-> "idle"]
    /\ body = [r \in Requests |-> NoBody]
    /\ outcome = [r \in Requests |-> NoOutcome]
    /\ calls = [r \in Requests |-> 0]
    /\ resp = [r \in Requests |-> <<>>]

\* the handler returns: the response is sent and the request is over
Return(r, response) ==
    /\ resp' = [resp EXCEPT ![r] = Append(@, response)]
    /\ pc' = [pc EXCEPT ![r] = "done"]

\* line 49: Flask dispatches a POST /generate_story to the handler
Receive(r, b) ==
    /\ pc[r] = "idle"
    /\ pc' = [pc EXCEPT ![r] = "received"]
    /\ body' = [body EXCEPT ![r] = b]
    /\ UNCHANGED <<env, google_api_key, model, outcome, calls, resp>>

\* lines 51-54
CheckStartup(r) ==
    /\ pc[r] = "received"
    /\ LET checked == CheckGlobals(google_api_key, model)
       IN  IF checked # Pass
           THEN Return(r, checked)
           ELSE /\ pc' = [pc EXCEPT ![r] = "parsing"]
                /\ UNCHANGED resp
    /\ UNCHANGED <<env, google_api_key, model, body, outcome, calls>>

\* ParseAndValidate without the handler of line 142: an exception of
\* lines 57-63 ends the handler without a response
ParseAndValidate_Uncaught(r) ==
    /\ pc[r] = "parsing"
    /\ LET validated == Validate(body[r])
       IN  IF validated = Pass
           THEN /\ pc' = [pc EXCEPT ![r] = "validated"]
                /\ UNCHANGED resp
           ELSE IF validated.status = 500
           THEN /\ pc' = [pc EXCEPT ![r] = "crashed"]
                /\ UNCHANGED resp
           ELSE Return(r, validated)
    /\ UNCHANGED <<env, google_api_key, model, body, outcome, calls>>

\* lines 56-64, with the handler of line 142
ParseAndValidate(r) ==
    /\ pc[r] = "parsing"
    /\ LET validated == Validate(body[r])
       IN  IF validated # Pass
           THEN Return(r, validated)
           ELSE /\ pc' = [pc EXCEPT ![r] = "validated"]
                /\ UNCHANGED resp
    /\ UNCHANGED <<env, google_api_key, model, body, outcome, calls>>

\* lines 68-97: the prompt is built and model.generate_content is called;
\* the handler blocks until the service answers
InvokeRemote(r) ==
    /\ pc[r] = "validated"
    /\ calls' = [calls EXCEPT ![r] = @ + 1]
    /\ pc' = [pc EXCEPT ![r] = "waiting"]
    /\ UNCHANGED <<env, google_api_key, model, body, outcome, resp>>

\* RemoteReturns calling the service again when the first call raised
RemoteReturns_Retries(r, o) ==
    /\ pc[r] = "waiting"
    /\ IF o.kind = "raises" /\ calls[r] < 2
       THEN /\ pc' = [pc EXCEPT ![r] = "validated"]
            /\ UNCHANGED <<outcome, resp>>
       ELSE /\ outcome' = [outcome EXCEPT ![r] = o]
            /\ Return(r, Interpret(o))
    /\ UNCHANGED <<env, google_api_key, model, body, calls>>

\* RemoteReturns dropping the client when the service refuses the key
RemoteReturns_DropsClient(r, o) ==
    /\ pc[r] = "waiting"
    /\ outcome' = [outcome EXCEPT ![r] = o]
    /\ Return(r, Interpret(o))
    /\ model' = IF Interpret(o).status = 401 THEN NoModel ELSE model
    /\ UNCHANGED <<env, google_api_key, body, calls>>

\* lines 93-140: the call returns or raises, and the handler answers
RemoteReturns(r, o) ==
    /\ pc[r] = "waiting"
    /\ outcome' = [outcome EXCEPT ![r] = o]
    /\ Return(r, Interpret(o))
    /\ UNCHANGED <<env, google_api_key, model, body, calls>>

\* the request is over and its thread takes the next request
Forget(r) ==
    /\ pc[r] = "done"
    /\ pc' = [pc EXCEPT ![r] = "idle"]
    /\ body' = [body EXCEPT ![r] = NoBody]
    /\ outcome' = [outcome EXCEPT ![r] = NoOutcome]
    /\ calls' = [calls EXCEPT ![r] = 0]
    /\ resp' = [resp EXCEPT ![r] = <<>>]
    /\ UNCHANGED <<env, google_api_key, model>>

Next ==
    \/ \E r \in Requests, b \in Bodies : Receive(r, b)
    \/ \E r \in Requests : CheckStartup(r)
    \/ \E r \in Requests : ParseAndValidate(r)
    \/ \E r \in Requests : InvokeRemote(r)
    \/ \E r \in Requests, o \in Outcomes : RemoteReturns(r, o)
    \/ \E r \in Requests : Forget(r)

Spec == Init /\ [][Next]_vars

\* one outcome of each kind the handler tells apart: a failure for each
\* status, a blocked answer with and without a reason, a text and a text of
\* whitespace only
LiveOutcomes ==
    [kind : {"raises"},
     exc : [type : {"ServiceUnavailable"},
            text : {<<a>> : a \in MsgFragments},
            has_message : {TRUE}]]
    \cup [kind : {"blocked"}, block_reason : {None, "SAFETY"}]
    \cup [kind : {"candidate"}, text : {<<" ", "a", " ">>, <<" ">>}]

\* Next with the outcomes of the remote call drawn from LiveOutcomes
NextLive ==
    \/ \E r \in Requests, b \in Bodies : Receive(r, b)
    \/ \E r \in Requests : CheckStartup(r)
    \/ \E r \in Requests : ParseAndValidate(r)
    \/ \E r \in Requests : InvokeRemote(r)
    \/ \E r \in Requests, o \in LiveOutcomes : RemoteReturns(r, o)
    \/ \E r \in Requests : Forget(r)

\* the handler is scheduled until it returns, and the remote call returns
\* or raises
Fairness ==
    \A r \in Requests :
        /\ WF_vars(CheckStartup(r))
        /\ WF_vars(ParseAndValidate(r))
        /\ WF_vars(InvokeRemote(r))
        /\ WF_vars(\E o \in LiveOutcomes : RemoteReturns(r, o))

FairSpec == Init /\ [][NextLive]_vars /\ Fairness

----------------------------------------------------------------------------
(* Properties *)

Done(r) == pc[r] = "done"

\* the response of a request that is over
TheResponse(r) == resp[r][1]

Answered(r) == Done(r) /\ Len(resp[r]) = 1

IsError(response) == DOMAIN response.json = {"error"}

IsStory(response) == DOMAIN response.json = {"story"}

ClientAvailable == Truthy(google_api_key) /\ model # NoModel

\* the start-up went wrong: no credential, configure raised, or the model
\* constructor raised
StartupFailed == ~Truthy(env.key) \/ ~env.configure_ok \/ ~env.init_ok

\* C1: when the credential is absent, or configuring it failed, or the model
\* was not initialized, every request is answered 500 with an error body and
\* the remote service is never invoked, whatever the body is.
C1_Misconfigured500 ==
    StartupFailed =>
        \A r \in Requests :
            /\ calls[r] = 0
            /\ pc[r] \notin {"parsing", "validated", "waiting"}
            /\ Done(r) => /\ Answered(r)
                          /\ TheResponse(r).status = 500
                          /\ IsError(TheResponse(r))
                          /\ outcome[r] = NoOutcome

\* a request whose prompt is missing was answered although the model failed
\* to initialize with a valid key
C1_Witness ==
    /\ env = [key |-> "key", configure_ok |-> TRUE, init_ok |-> FALSE]
    /\ \E r \in Requests :
          /\ Done(r)
          /\ body[r] = [kind |-> "object", prompt |-> [type |-> "absent"]]
          /\ TheResponse(r).status = 500

HasPrompt(r) == body[r].kind = "object"

PromptOf(r) == body[r].prompt

InRange(p) == HasLen(p) /\ p.len >= 1 /\ p.len <= 2000

Rejected(p) ==
    \/ p.type \in {"absent", "null"}
    \/ HasLen(p) /\ (p.len = 0 \/ p.len > 2000)

\* C2: with the client available, a prompt of length 1..2000 passes the gate
\* and the remote service is invoked; a prompt that is missing, empty or
\* longer than 2000 is answered 400 with an error body ("Prompt is missing"
\* when the key is absent) and the remote service is never invoked.
C2_LengthGate ==
    ClientAvailable =>
        \A r \in Requests :
            HasPrompt(r) =>
                /\ InRange(PromptOf(r)) =>
                      /\ pc[r] \in {"waiting", "done"} => calls[r] = 1
                      /\ Done(r) => outcome[r] # NoOutcome
                /\ Rejected(PromptOf(r)) =>
                      /\ calls[r] = 0
                      /\ pc[r] \notin {"validated", "waiting"}
                      /\ Done(r) => /\ Answered(r)
                                    /\ TheResponse(r).status = 400
                                    /\ IsError(TheResponse(r))
                                    /\ outcome[r] = NoOutcome
                      /\ Done(r) /\ PromptOf(r).type = "absent" =>
                            TheResponse(r).json.error = <<"Prompt is missing">>

\* a prompt of exactly 2000 characters reached the service while one of 2001
\* was refused
C2_Witness ==
    \E r1, r2 \in Requests :
        /\ Done(r1) /\ Done(r2)
        /\ body[r1] = [kind |-> "object",
                       prompt |-> [type |-> "string", len |-> 2000]]
        /\ calls[r1] = 1
        /\ body[r2] = [kind |-> "object",
                       prompt |-> [type |-> "string", len |-> 2001]]
        /\ TheResponse(r2).status = 400

\* the markers of a failure: in its message, or in its class
AuthMarker(e) == Contains("API key not valid", e.text) \/ e.type = "PermissionDenied"

QuotaMarker(e) == Contains("Quota", e.text) \/ e.type = "ResourceExhausted"

InvalidMarker(e) == Contains("Invalid", e.text) \/ e.type = "BadRequest"

Failed(r) == Done(r) /\ outcome[r].kind = "raises"

\* C3: the status of a failed remote call is that of the first marker found,
\* in the order authentication (401), quota (429), invalid request (400),
\* and 500 when there is none.
C3_ClassificationPriority ==
    \A r \in Requests :
        Failed(r) =>
            LET e == outcome[r].exc
                status == TheResponse(r).status
            IN  /\ AuthMarker(e) => status = 401
                /\ ~AuthMarker(e) /\ QuotaMarker(e) => status = 429
                /\ ~AuthMarker(e) /\ ~QuotaMarker(e) /\ InvalidMarker(e) =>
                      status = 400
                /\ ~AuthMarker(e) /\ ~QuotaMarker(e) /\ ~InvalidMarker(e) =>
                      status = 500

\* a failure with the quota marker before the authentication marker in its
\* message was answered 401, and one of class BadRequest with the quota
\* marker was answered 429
C3_Witness ==
    \E r1, r2 \in Requests :
        /\ Failed(r1) /\ Failed(r2)
        /\ outcome[r1].exc.text = <<"Quota", "API key not valid">>
        /\ outcome[r1].exc.type = "BadRequest"
        /\ TheResponse(r1).status = 401
        /\ outcome[r2].exc.text = <<"Invalid", "Quota">>
        /\ outcome[r2].exc.type = "BadRequest"
        /\ TheResponse(r2).status = 429

GenericBlocked ==
    <<"Content generation blocked. The prompt might have violated safety guidelines or resulted in no valid output.">>

WasBlocked(r) == Done(r) /\ outcome[r].kind = "blocked"

\* C4: an answer without candidates gives 400 with a non-empty error that
\* names the block reason when there is one and is the generic message
\* otherwise, and no story.
C4_BlockedContent ==
    \A r \in Requests :
        WasBlocked(r) =>
            LET reason == outcome[r].block_reason
                response == TheResponse(r)
            IN  /\ Answered(r)
                /\ response.status = 400
                /\ IsError(response)
                /\ response.json.error # <<>>
                /\ reason \in {"SAFETY", "OTHER"} =>
                      Contains(reason, response.json.error)
                /\ reason \notin {"SAFETY", "OTHER"} =>
                      response.json.error = GenericBlocked

\* one request was blocked for SAFETY and another without feedback
C4_Witness ==
    \E r1, r2 \in Requests :
        /\ WasBlocked(r1) /\ WasBlocked(r2)
        /\ outcome[r1].block_reason = "SAFETY"
        /\ outcome[r2].block_reason = None

AllWhitespace(t) == \A i \in 1..Len(t) : t[i] \in Whitespace

\* s is t without the whitespace at its two ends
IsTrimmed(s, t) ==
    \E i, j \in 1..Len(t) :
        /\ i <= j
        /\ s = SubSeq(t, i, j)
        /\ t[i] \notin Whitespace /\ t[j] \notin Whitespace
        /\ \A k \in 1..Len(t) : (k < i \/ k > j) => t[k] \in Whitespace

GotCandidate(r) == Done(r) /\ outcome[r].kind = "candidate"

\* C5: an answer with a candidate gives 200 and the candidate's text without
\* the whitespace at its ends, or the fallback sentence when nothing is
\* left; the story is never empty and has no whitespace at its ends.
C5_TrimmedStory ==
    \A r \in Requests :
        GotCandidate(r) =>
            LET t == outcome[r].text
                response == TheResponse(r)
            IN  /\ Answered(r)
                /\ response.status = 200
                /\ IsStory(response)
                /\ LET story == response.json.story
                   IN  /\ IF AllWhitespace(t) THEN story = Fallback
                                              ELSE IsTrimmed(story, t)
                       /\ story # <<>>
                       /\ story[1] \notin Whitespace
                       /\ story[Len(story)] \notin Whitespace

\* " a " came back as "a" and "\n " as the fallback sentence
C5_Witness ==
    \E r1, r2 \in Requests :
        /\ GotCandidate(r1) /\ GotCandidate(r2)
        /\ outcome[r1].text = <<" ", "a", " ">>
        /\ TheResponse(r1).json.story = <<"a">>
        /\ outcome[r2].text = <<"\n", " ">>
        /\ TheResponse(r2).json.story = Fallback

\* the request ended in a failure: misconfiguration, a refused or unusable
\* body, a blocked answer or a failed remote call
EndedInFailure(r) ==
    /\ Done(r)
    /\ \/ ~ClientAvailable
       \/ Validate(body[r]) # Pass
       \/ outcome[r].kind \in {"raises", "blocked"}

\* C6: every response is either 200 with a story and no error, or one of
\* 400, 401, 429, 500 with an error and no story; a failure is never
\* answered 200.
C6_ResponseShape ==
    \A r \in Requests :
        Done(r) =>
            LET response == TheResponse(r)
            IN  /\ Answered(r)
                /\ \/ response.status = 200 /\ IsStory(response)
                   \/ /\ response.status \in {400, 401, 429, 500}
                      /\ IsError(response)
                      /\ response.json.error # <<>>
                /\ EndedInFailure(r) => response.status # 200
                /\ response.status = 200 => outcome[r].kind = "candidate"

\* a body that is no JSON was answered 500 with an error while another
\* request got its story
C6_Witness ==
    \E r1, r2 \in Requests :
        /\ Done(r1) /\ Done(r2)
        /\ body[r1] = [kind |-> "unparsable"]
        /\ TheResponse(r1).status = 500
        /\ TheResponse(r2).status = 200

\* the handler itself raised: the body is no JSON or no object, or the
\* prompt has no length
HandlerRaised(r) ==
    /\ ClientAvailable
    /\ Done(r)
    /\ \/ GetPrompt(body[r]).raised
       \/ ~Falsy(GetPrompt(body[r]).value) /\ ~HasLen(GetPrompt(body[r]).value)

\* str(e) of the exception the handler raised on this body
RaisedText(b) ==
    IF GetPrompt(b).raised THEN GetPrompt(b).text ELSE TypeErrorText("int")

\* C7: an exception raised while handling a request, other than a failure
\* of the remote call, is answered 500 with a generic message that does not
\* show the text of the exception.
C7_GenericInternalError ==
    \A r \in Requests :
        HandlerRaised(r) =>
            /\ Answered(r)
            /\ TheResponse(r).status = 500
            /\ IsError(TheResponse(r))
            /\ \A i \in 1..Len(RaisedText(body[r])) :
                  ~Contains(RaisedText(body[r])[i], TheResponse(r).json.error)

\* C8: the remote service is invoked at most once per request, and a failed
\* or blocked call is answered without another invocation.
C8_NoRetry ==
    \A r \in Requests :
        /\ calls[r] <= 1
        /\ pc[r] \in {"idle", "received", "parsing", "validated"} => calls[r] = 0
        /\ Done(r) /\ outcome[r].kind \in {"raises", "blocked"} =>
              /\ calls[r] = 1
              /\ Answered(r)
              /\ TheResponse(r).status # 200

\* a failed call and a blocked call were each answered after one invocation
C8_Witness ==
    \E r1, r2 \in Requests :
        /\ Failed(r1) /\ calls[r1] = 1
        /\ WasBlocked(r2) /\ calls[r2] = 1

\* C9: no step of a handler writes the credential or the client, and the
\* response of each request is the one the handler gives when run alone on
\* the start-up configuration, the request's body and the outcome of its own
\* remote call.
C9_Independent ==
    /\ google_api_key = StartupKey(env)
    /\ model = StartupModel(StartupKey(env), env)
    /\ \A r \in Requests :
          Done(r) =>
              resp[r] = <<HandleAlone(StartupKey(env),
                                      StartupModel(StartupKey(env), env),
                                      body[r], outcome[r])>>

\* a request failed with 401 while another, received meanwhile, was still
\* waiting for the service
C9_Witness ==
    \E r1, r2 \in Requests :
        /\ r1 # r2
        /\ Failed(r1)
        /\ TheResponse(r1).status = 401
        /\ pc[r2] = "waiting"
        /\ body[r1] # body[r2]

\* C10: every request received is eventually answered, once; this holds
\* for the requests that follow one that failed too.
C10_EveryRequestAnswered ==
    \A r \in Requests : (pc[r] = "received") ~> Answered(r)

\* a request was answered 500 by the handler of line 142 while the next
\* request has been received
C10_Witness ==
    \E r1, r2 \in Requests :
        /\ HandlerRaised(r1)
        /\ TheResponse(r1).status = 500
        /\ pc[r2] = "received"

====
